---- MODULE Spec2Model ----
(***************************************************************************)
(* Model of app.py: the Student class, load_students and the two JSON      *)
(* routes /api/students and /api/summary.                                  *)
(*                                                                         *)
(* Numbers.  Grades and averages are kept as integers in hundredths        *)
(* (80.01 is 8001), which is the precision round(x, 2) returns.            *)
(* Python's round works on the binary double: a decimal tie such as 80.005 *)
(* is not representable, the double lies on one side of it and the result  *)
(* follows that side.  The variable fpUp is that side; it is fixed for a   *)
(* behaviour because the float arithmetic is deterministic.  A tie whose   *)
(* operands and value are exact in binary (86.375) is rounded half-even.   *)
(*                                                                         *)
(* Strings that the code splits, strips or joins are sequences of          *)
(* one-character strings; opaque strings (Name, ID, Graduate) are atoms.   *)
(***************************************************************************)
EXTENDS Integers, Sequences, FiniteSets, TLC

(* file      the data file data/students.json: missing, garbled, or a JSON  *)
(*           list of objects                                               *)
(* pc        per request: "idle", "loaded" (load_students has returned),    *)
(*           "done" (the response is ready)                                *)
(* kind      per request: the route, "students" or "summary"                *)
(* raw       per request: the list json.load returned (load_students)       *)
(* students  per request: the Student objects built from raw                *)
(* resp      per request: the HTTP response                                 *)
(* fpUp      the side on which the double nearest an inexact decimal tie    *)
(*           lies                                                           *)
(* stu, out  a Student and the result of one method called on it            *)
VARIABLES file, pc, kind, raw, students, resp, fpUp, stu, out

vars == <<file, pc, kind, raw, students, resp, fpUp, stu, out>>

-----------------------------------------------------------------------------
(* Bounds *)

MaxGrades == 3
MaxStrLen == 7
MaxStudents == 2
NumRequests == 2

(* Program constants *)

Scale == 100
ExcellentMin == 80
GoodMin == 70
AverageMin == 55
DistinctionOver == 80
TopStudentMin == 89

-----------------------------------------------------------------------------
(* Sequence helpers *)

RECURSIVE reduce_add(_)
reduce_add(xs) ==
    IF xs = <<>> THEN 0 ELSE Head(xs) + reduce_add(Tail(xs))

-----------------------------------------------------------------------------
(* round(total / n, 2), total and result in hundredths, n > 0 *)

IsDyadic(x) == x % 25 = 0

AllDyadic(xs) == \A i \in 1..Len(xs) : IsDyadic(xs[i])

(* round2 with the quotient truncated instead of rounded *)
round2_floor(xs) == reduce_add(xs) \div Len(xs)

round2(xs) ==
    LET total == reduce_add(xs)
        n     == Len(xs)
        q     == total \div n
        r     == total % n
    IN  IF 2 * r < n THEN q
        ELSE IF 2 * r > n THEN q + 1
        ELSE IF AllDyadic(xs) /\ q % 25 = 12
             THEN (IF q % 2 = 0 THEN q ELSE q + 1)
             ELSE (IF fpUp THEN q + 1 ELSE q)

-----------------------------------------------------------------------------
(* str.split, str.strip, str.join on sequences of characters *)

Whitespace == {" "}

RECURSIVE split(_, _)
split(s, sep) ==
    IF \A i \in 1..Len(s) : s[i] # sep THEN <<s>>
    ELSE LET k == CHOOSE i \in 1..Len(s) :
                      s[i] = sep /\ \A j \in 1..(i - 1) : s[j] # sep
         IN  <<SubSeq(s, 1, k - 1)>> \o split(SubSeq(s, k + 1, Len(s)), sep)

RECURSIVE lstrip(_)
lstrip(s) ==
    IF s # <<>> /\ Head(s) \in Whitespace THEN lstrip(Tail(s)) ELSE s

RECURSIVE rstrip(_)
rstrip(s) ==
    IF s # <<>> /\ s[Len(s)] \in Whitespace
    THEN rstrip(SubSeq(s, 1, Len(s) - 1)) ELSE s

strip(s) == rstrip(lstrip(s))

RECURSIVE join(_, _)
join(sep, parts) ==
    IF parts = <<>> THEN <<>>
    ELSE IF Len(parts) = 1 THEN Head(parts)
    ELSE Head(parts) \o <<sep>> \o join(sep, Tail(parts))

(* str(g) of a JSON number: 95 -> "95", 89.5 -> "89.5", 80.01 -> "80.01" *)

DigitChar(d) == <<"0", "1", "2", "3", "4", "5", "6", "7", "8", "9">>[d + 1]

RECURSIVE Digits(_)
Digits(n) ==
    IF n < 10 THEN <<DigitChar(n)>>
    ELSE Digits(n \div 10) \o <<DigitChar(n % 10)>>

str(g) ==
    LET ip == g \div Scale
        fp == g % Scale
    IN  IF fp = 0 THEN Digits(ip)
        ELSE IF fp % 10 = 0 THEN Digits(ip) \o <<".", DigitChar(fp \div 10)>>
        ELSE Digits(ip) \o <<".", DigitChar(fp \div 10), DigitChar(fp % 10)>>

-----------------------------------------------------------------------------
(* class Student *)

Dash == <<"-">>

Student(name, student_id, courses, grades, eligible_courses, graduate) ==
    [name |-> name, student_id |-> student_id, courses |-> courses,
     grades |-> grades, eligible_courses |-> eligible_courses,
     graduate |-> graduate]

avg_grade(s) ==
    IF s.grades = <<>> THEN 0 ELSE round2(s.grades)

(* predict_performance with a strict first threshold *)
predict_performance_gt(s) ==
    LET avg == avg_grade(s)
    IN  IF avg > ExcellentMin * Scale THEN "Excellent"
        ELSE IF avg >= GoodMin * Scale THEN "Good"
        ELSE IF avg >= AverageMin * Scale THEN "Average"
        ELSE "Poor"

predict_performance(s) ==
    LET avg == avg_grade(s)
    IN  IF avg >= ExcellentMin * Scale THEN "Excellent"
        ELSE IF avg >= GoodMin * Scale THEN "Good"
        ELSE IF avg >= AverageMin * Scale THEN "Average"
        ELSE "Poor"

(* has_distinction with the boundary included *)
has_distinction_ge(s) == avg_grade(s) >= DistinctionOver * Scale

has_distinction(s) == avg_grade(s) > DistinctionOver * Scale

(* is_top_student with the distinction threshold *)
is_top_student_low(s) == avg_grade(s) >= DistinctionOver * Scale

is_top_student(s) == avg_grade(s) >= TopStudentMin * Scale

(* KeepEntry without the strip *)
KeepEntry_nostrip(c) == c \notin {<<>>, Dash}

KeepEntry(c) == strip(c) \notin {<<>>, Dash}

get_eligible_courses(s) ==
    LET parts == SelectSeq(split(s.eligible_courses, ";"), KeepEntry)
    IN  IF parts # <<>> THEN join(";", parts) ELSE Dash

to_dict(s) ==
    [Name            |-> s.name,
     ID              |-> s.student_id,
     Code            |-> join(";", s.courses),
     Grades          |-> join(";", [i \in 1..Len(s.grades) |-> str(s.grades[i])]),
     AvgGrade        |-> avg_grade(s),
     Prediction      |-> predict_performance(s),
     Distinction     |-> IF has_distinction(s) THEN "Yes" ELSE "No",
     TopStudent      |-> IF is_top_student(s) THEN "Yes" ELSE "No",
     EligibleCourses |-> get_eligible_courses(s),
     Graduate        |-> s.graduate]

-----------------------------------------------------------------------------
(* Specification of the Student methods: one Student is constructed and one *)
(* of its methods is called on it.                                         *)

GradeSet == {0, 5499, 5500, 7999, 8000, 8001, 8025, 8400, 8900, 9500}

GradeLists == UNION {[1..n -> GradeSet] : n \in 0..MaxGrades}

Alphabet == {"S", "-", " ", ";"}

RawStrings == UNION {[1..n -> Alphabet] : n \in 0..MaxStrLen}

NoStudent == Student("", "", <<>>, <<>>, Dash, "No")

NoOut == [op |-> "none"]

MissingFile == [state |-> "missing", raw |-> <<>>]

NoResponse == [status |-> 0, json |-> <<>>]

Requests == 1..NumRequests

ServerIdle ==
    /\ file = MissingFile
    /\ pc = [r \in Requests |-> "idle"]
    /\ kind = [r \in Requests |-> "none"]
    /\ students = [r \in Requests |-> <<>>]
    /\ raw = [r \in Requests |-> <<>>]
    /\ resp = [r \in Requests |-> NoResponse]

serverVars == <<file, pc, kind, raw, students, resp>>

InitStudent ==
    /\ ServerIdle
    /\ fpUp \in BOOLEAN
    /\ stu \in {Student("Aisyah", "AM123", <<<<"S">>>>, g, Dash, "No") :
                    g \in GradeLists}
    /\ out = NoOut

Call(op, val) ==
    /\ out = NoOut
    /\ out' = [op |-> op, val |-> val]
    /\ UNCHANGED <<serverVars, fpUp, stu>>

CallAvgGrade == Call("avg_grade", avg_grade(stu))

CallPredictPerformance == Call("predict_performance", predict_performance(stu))

CallHasDistinction == Call("has_distinction", has_distinction(stu))

CallIsTopStudent == Call("is_top_student", is_top_student(stu))

CallToDict == Call("to_dict", to_dict(stu))

NextStudent ==
    \/ CallAvgGrade
    \/ CallPredictPerformance
    \/ CallHasDistinction
    \/ CallIsTopStudent
    \/ CallToDict

SpecStudent == InitStudent /\ [][NextStudent]_vars

(* Specification of get_eligible_courses over every raw string *)

InitEligible ==
    /\ ServerIdle
    /\ fpUp \in BOOLEAN
    /\ stu \in {Student("Aisyah", "AM123", <<<<"S">>>>, <<>>, e, "No") :
                    e \in RawStrings}
    /\ out = NoOut

CallGetEligibleCourses ==
    Call("get_eligible_courses", get_eligible_courses(stu))

NextEligible == CallGetEligibleCourses

SpecEligible == InitEligible /\ [][NextEligible]_vars

-----------------------------------------------------------------------------
(* The data file data/students.json and load_students *)

RawA ==
    [Name |-> "Aisyah", ID |-> "AM123", Code |-> <<<<"S">>, <<"M">>>>,
     Grades |-> <<9500, 8400>>, EligibleCourses |-> <<"S", ";", "-">>,
     Graduate |-> "Yes"]

RawB ==
    [Name |-> "Anis", ID |-> "AM789", Code |-> <<<<"S">>>>,
     Grades |-> <<8001, 8000>>]

RawNoName ==
    [ID |-> "AM456", Code |-> <<<<"M">>>>, Grades |-> <<7900>>]

GoodRecords == {RawA, RawB}

(* IDs are unique within a file: no record occurs twice *)
NoRepeat(l) == \A i, j \in 1..Len(l) : l[i] = l[j] => i = j

GoodLists ==
    {l \in UNION {[1..n -> GoodRecords] : n \in 0..MaxStudents} : NoRepeat(l)}

JsonFile(l) == [state |-> "json", raw |-> l]

GarbledFile == [state |-> "garbled", raw |-> <<>>]

FileSet ==
    {JsonFile(l) : l \in GoodLists}
        \cup {JsonFile(Append(l, RawNoName)) :
                 l \in {g \in GoodLists : Len(g) < MaxStudents}}
        \cup {MissingFile, GarbledFile}

RequiredKeys == {"Name", "ID", "Code", "Grades"}

Get(d, key, default) == IF key \in DOMAIN d THEN d[key] ELSE default

FromDict(d) ==
    Student(d["Name"], d["ID"], d["Code"], d["Grades"],
            Get(d, "EligibleCourses", Dash), Get(d, "Graduate", "No"))

Raises(f) ==
    \/ f.state # "json"
    \/ \E i \in 1..Len(f.raw) : ~(RequiredKeys \subseteq DOMAIN f.raw[i])

(* load_students that keeps the records it has already built *)
load_students_cached(f) ==
    IF \E q \in Requests : students[q] # <<>>
    THEN LET q == CHOOSE q \in Requests : students[q] # <<>>
         IN  [raised |-> FALSE, raw |-> raw[q], value |-> students[q]]
    ELSE IF Raises(f) THEN [raised |-> TRUE, raw |-> <<>>, value |-> <<>>]
    ELSE [raised |-> FALSE, raw |-> f.raw,
          value |-> [i \in 1..Len(f.raw) |-> FromDict(f.raw[i])]]

HasRequiredKeys(d) == RequiredKeys \subseteq DOMAIN d

(* load_students that skips the records it cannot build *)
load_students_skipping(f) ==
    IF f.state # "json" THEN [raised |-> TRUE, raw |-> <<>>, value |-> <<>>]
    ELSE [raised |-> FALSE,
          raw |-> f.raw,
          value |-> LET ok == SelectSeq(f.raw, HasRequiredKeys)
                    IN  [i \in 1..Len(ok) |-> FromDict(ok[i])]]

load_students(f) ==
    IF Raises(f) THEN [raised |-> TRUE, raw |-> <<>>, value |-> <<>>]
    ELSE [raised |-> FALSE, raw |-> f.raw,
          value |-> [i \in 1..Len(f.raw) |-> FromDict(f.raw[i])]]

-----------------------------------------------------------------------------
(* Routes *)

jsonify(x) == [status |-> 200, json |-> x]

InternalServerError == [status |-> 500, json |-> <<>>]

IsExcellent(s) == predict_performance(s) = "Excellent"

RECURSIVE Reverse(_)
Reverse(xs) ==
    IF xs = <<>> THEN <<>> ELSE Append(Reverse(Tail(xs)), Head(xs))

(* get_students with the records in reverse order *)
get_students_json_reversed(ss) ==
    [i \in 1..Len(ss) |-> to_dict(Reverse(ss)[i])]

get_students_json(ss) == [i \in 1..Len(ss) |-> to_dict(ss[i])]

(* get_summary with the top and distinction counts exchanged *)
get_summary_json_swapped(ss) ==
    LET avgs        == [i \in 1..Len(ss) |-> avg_grade(ss[i])]
        class_avg   == IF avgs # <<>> THEN round2(avgs) ELSE 0
        excellent   == SelectSeq(ss, IsExcellent)
        top         == SelectSeq(ss, is_top_student)
        distinction == SelectSeq(ss, has_distinction)
    IN  [totalStudents    |-> Len(ss),
         classAvgGrade    |-> class_avg,
         excellentCount   |-> Len(excellent),
         topStudentCount  |-> Len(distinction),
         distinctionCount |-> Len(top)]

get_summary_json(ss) ==
    LET avgs        == [i \in 1..Len(ss) |-> avg_grade(ss[i])]
        class_avg   == IF avgs # <<>> THEN round2(avgs) ELSE 0
        excellent   == SelectSeq(ss, IsExcellent)
        top         == SelectSeq(ss, is_top_student)
        distinction == SelectSeq(ss, has_distinction)
    IN  [totalStudents    |-> Len(ss),
         classAvgGrade    |-> class_avg,
         excellentCount   |-> Len(excellent),
         topStudentCount  |-> Len(top),
         distinctionCount |-> Len(distinction)]

(* The handler's call of load_students: the exception aborts the request *)
Load(r, k) ==
    /\ pc[r] = "idle"
    /\ kind' = [kind EXCEPT ![r] = k]
    /\ LET loaded == load_students(file)
       IN  IF loaded.raised
           THEN /\ pc' = [pc EXCEPT ![r] = "done"]
                /\ resp' = [resp EXCEPT ![r] = InternalServerError]
                /\ UNCHANGED <<raw, students>>
           ELSE /\ pc' = [pc EXCEPT ![r] = "loaded"]
                /\ raw' = [raw EXCEPT ![r] = loaded.raw]
                /\ students' = [students EXCEPT ![r] = loaded.value]
                /\ UNCHANGED resp
    /\ UNCHANGED <<file, fpUp, stu, out>>

(* Respond that keeps the response in one object shared by the requests *)
Respond_shared(r, k, json) ==
    /\ pc[r] = "loaded"
    /\ kind[r] = k
    /\ pc' = [pc EXCEPT ![r] = "done"]
    /\ resp' = [q \in Requests |->
                   IF q = r \/ pc[q] = "done" THEN jsonify(json) ELSE resp[q]]
    /\ UNCHANGED <<file, kind, raw, students, fpUp, stu, out>>

Respond(r, k, json) ==
    /\ pc[r] = "loaded"
    /\ kind[r] = k
    /\ pc' = [pc EXCEPT ![r] = "done"]
    /\ resp' = [resp EXCEPT ![r] = jsonify(json)]
    /\ UNCHANGED <<file, kind, raw, students, fpUp, stu, out>>

get_students_load(r) == Load(r, "students")

get_students_respond(r) ==
    Respond(r, "students", get_students_json(students[r]))

get_summary_load(r) == Load(r, "summary")

get_summary_respond(r) ==
    Respond(r, "summary", get_summary_json(students[r]))

(* The response is sent; the request's records are discarded *)
Return(r) ==
    /\ pc[r] = "done"
    /\ pc' = [pc EXCEPT ![r] = "idle"]
    /\ kind' = [kind EXCEPT ![r] = "none"]
    /\ students' = [students EXCEPT ![r] = <<>>]
    /\ raw' = [raw EXCEPT ![r] = <<>>]
    /\ resp' = [resp EXCEPT ![r] = NoResponse]
    /\ UNCHANGED <<file, fpUp, stu, out>>

(* The data file is edited, removed or damaged from outside the program *)
SetFile(f) ==
    /\ file' = f
    /\ UNCHANGED <<pc, kind, raw, students, resp, fpUp, stu, out>>

AppendRecord(d) ==
    /\ file.state = "json"
    /\ Len(file.raw) < MaxStudents
    /\ ~Raises(file)
    /\ NoRepeat(Append(file.raw, d))
    /\ SetFile(JsonFile(Append(file.raw, d)))

RemoveLastRecord ==
    /\ file.state = "json"
    /\ file.raw # <<>>
    /\ SetFile(JsonFile(SubSeq(file.raw, 1, Len(file.raw) - 1)))

DeleteFile ==
    /\ file.state # "missing"
    /\ SetFile(MissingFile)

GarbleFile ==
    /\ file.state # "garbled"
    /\ SetFile(GarbledFile)

CreateFile ==
    /\ file.state # "json"
    /\ SetFile(JsonFile(<<>>))

Init ==
    /\ file \in FileSet
    /\ pc = [r \in Requests |-> "idle"]
    /\ kind = [r \in Requests |-> "none"]
    /\ students = [r \in Requests |-> <<>>]
    /\ raw = [r \in Requests |-> <<>>]
    /\ resp = [r \in Requests |-> NoResponse]
    /\ fpUp \in BOOLEAN
    /\ stu = NoStudent
    /\ out = NoOut

Next ==
    \/ \E r \in Requests : get_students_load(r)
    \/ \E r \in Requests : get_students_respond(r)
    \/ \E r \in Requests : get_summary_load(r)
    \/ \E r \in Requests : get_summary_respond(r)
    \/ \E r \in Requests : Return(r)
    \/ \E d \in GoodRecords \cup {RawNoName} : AppendRecord(d)
    \/ RemoveLastRecord
    \/ DeleteFile
    \/ GarbleFile
    \/ CreateFile

Spec == Init /\ [][Next]_vars

-----------------------------------------------------------------------------
(* Properties of the Student methods (SpecStudent, SpecEligible) *)

Abs(x) == IF x < 0 THEN -x ELSE x

(* C1: avg_grade is the mean of the grades rounded to the nearest          *)
(* hundredth (at most half a hundredth away from sum/len), and 0.0 for an  *)
(* empty grade list.                                                       *)
C1_AvgGradeIsRoundedMean ==
    out.op = "avg_grade" =>
        LET g     == stu.grades
            n     == Len(g)
            total == reduce_add(g)
        IN  IF n = 0 THEN out.val = 0
            ELSE 2 * Abs(out.val * n - total) <= n

C1_Witness ==
    /\ out.op = "avg_grade"
    /\ stu.grades = <<9500, 8400, 8001>>
    /\ out.val = 8634

TierMatches(a, t) ==
    /\ t \in {"Excellent", "Good", "Average", "Poor"}
    /\ (t = "Excellent" <=> a >= 8000)
    /\ (t = "Good" <=> (7000 <= a /\ a < 8000))
    /\ (t = "Average" <=> (5500 <= a /\ a < 7000))
    /\ (t = "Poor" <=> a < 5500)
    /\ (a = 7999 => t = "Good")
    /\ (a = 8000 => t = "Excellent")
    /\ (a = 5499 => t = "Poor")
    /\ (a = 5500 => t = "Average")

(* C2: predict_performance returns exactly one of the four labels, decided *)
(* on the rounded average: Excellent iff avg >= 80, Good iff 70 <= avg <   *)
(* 80, Average iff 55 <= avg < 70, Poor iff avg < 55.                      *)
C2_TierByThreshold ==
    /\ out.op = "predict_performance" => TierMatches(avg_grade(stu), out.val)
    /\ out.op = "to_dict" => TierMatches(out.val.AvgGrade, out.val.Prediction)

C2_Witness ==
    /\ out.op = "predict_performance"
    /\ stu.grades = <<7999>>
    /\ out.val = "Good"

(* C3: has_distinction is true iff the average is strictly greater than    *)
(* 80: an average of exactly 80.0 serializes as Prediction "Excellent" and *)
(* Distinction "No", an average of 80.01 as Distinction "Yes".             *)
C3_DistinctionStrict ==
    /\ out.op = "has_distinction" => (out.val <=> avg_grade(stu) > 8000)
    /\ out.op = "to_dict" =>
           /\ out.val.Distinction \in {"Yes", "No"}
           /\ out.val.Distinction = "Yes" <=> out.val.AvgGrade > 8000
           /\ out.val.AvgGrade = 8000 =>
                  /\ out.val.Prediction = "Excellent"
                  /\ out.val.Distinction = "No"
           /\ out.val.AvgGrade = 8001 => out.val.Distinction = "Yes"

C3_Witness ==
    /\ out.op = "to_dict"
    /\ out.val.AvgGrade = 8000
    /\ out.val.Prediction = "Excellent"
    /\ out.val.Distinction = "No"

(* The entries of s between separators, by position: entry <<a, b>> is     *)
(* s[a+1 .. b-1], a and b being consecutive separator positions (or the    *)
(* ends of s).                                                             *)
Seps(s) == {0, Len(s) + 1} \cup {i \in 1..Len(s) : s[i] = ";"}

Entries(s) ==
    {e \in Seps(s) \X Seps(s) :
        e[1] < e[2] /\ \A k \in Seps(s) : ~(e[1] < k /\ k < e[2])}

NonBlank(s, e) == {i \in (e[1] + 1)..(e[2] - 1) : s[i] # " "}

(* after trimming, the entry is neither empty nor "-" *)
Survives(s, e) ==
    /\ NonBlank(s, e) # {}
    /\ ~(\E i \in NonBlank(s, e) : NonBlank(s, e) = {i} /\ s[i] = "-")

(* Positions of s that the result keeps: the characters of the surviving  *)
(* entries, and the separator in front of every surviving entry but the   *)
(* first.                                                                  *)
KeptPositions(s) ==
    {i \in 1..Len(s) :
        \E e \in Entries(s) :
            /\ Survives(s, e)
            /\ \/ e[1] < i /\ i < e[2]
               \/ /\ i = e[1]
                  /\ \E d \in Entries(s) : d[2] <= i /\ Survives(s, d)}

Restrict(s, K) ==
    [j \in 1..Cardinality(K) |->
        s[CHOOSE i \in K : Cardinality({x \in K : x <= i}) = j]]

(* C4: get_eligible_courses returns the entries of the raw string (split   *)
(* on ";") that after trimming are neither empty nor "-", in their         *)
(* original order and joined with ";", and "-" when no entry survives; so  *)
(* the result is "-" or a ";"-joined list of non-blank entries none of     *)
(* which is "-".                                                           *)
C4_EligibleCoursesNormalized ==
    out.op = "get_eligible_courses" =>
        LET src == stu.eligible_courses
            res == out.val
        IN  /\ IF \E e \in Entries(src) : Survives(src, e)
               THEN res = Restrict(src, KeptPositions(src))
               ELSE res = Dash
            /\ res = Dash \/ \A e \in Entries(res) : Survives(res, e)

C4_Witness ==
    /\ out.op = "get_eligible_courses"
    /\ stu.eligible_courses = <<"S", ";", "-", ";", " ", ";", "S">>
    /\ out.val = <<"S", ";", "S">>

-----------------------------------------------------------------------------
(* Properties of the routes (Spec) *)

(* The records built from the parsed file contents l *)
RecordsOf(l) == [i \in 1..Len(l) |-> FromDict(l[i])]

Done(r, k) == pc[r] = "done" /\ kind[r] = k /\ resp[r].status = 200

Failed(r) == pc[r] = "done" /\ resp[r] = InternalServerError

(* C5: the summary of a loaded collection gives totalStudents = number of  *)
(* records, classAvgGrade = mean of the per-student rounded averages       *)
(* rounded to the nearest hundredth, excellentCount = number of students   *)
(* of tier Excellent, topStudentCount = number with average >= 89,         *)
(* distinctionCount = number with average > 80; an empty collection gives  *)
(* 0 for the average and for every count.                                  *)
C5_SummaryAggregates ==
    \A r \in Requests :
        Done(r, "summary") =>
            LET ss   == RecordsOf(raw[r])
                n    == Len(ss)
                avgs == [i \in 1..n |-> avg_grade(ss[i])]
                j    == resp[r].json
            IN  /\ j.totalStudents = Len(raw[r])
                /\ IF n = 0 THEN j.classAvgGrade = 0
                   ELSE 2 * Abs(j.classAvgGrade * n - reduce_add(avgs)) <= n
                /\ j.excellentCount =
                       Cardinality({i \in 1..n :
                                       predict_performance(ss[i]) = "Excellent"})
                /\ j.topStudentCount = Cardinality({i \in 1..n : avgs[i] >= 8900})
                /\ j.distinctionCount = Cardinality({i \in 1..n : avgs[i] > 8000})
                /\ n = 0 => /\ j.excellentCount = 0
                            /\ j.topStudentCount = 0
                            /\ j.distinctionCount = 0

C5_Witness ==
    \E r \in Requests :
        /\ Done(r, "summary")
        /\ raw[r] = <<RawA, RawB>>
        /\ resp[r].json.totalStudents = 2
        /\ resp[r].json.classAvgGrade = 8475
        /\ resp[r].json.excellentCount = 2
        /\ resp[r].json.topStudentCount = 1
        /\ resp[r].json.distinctionCount = 1

(* C6: the student list has one serialized mapping per record of the file, *)
(* in file order: its i-th element is to_dict of the i-th record.          *)
C6_ListInFileOrder ==
    \A r \in Requests :
        Done(r, "students") =>
            /\ Len(resp[r].json) = Len(raw[r])
            /\ \A i \in 1..Len(raw[r]) :
                   /\ resp[r].json[i] = to_dict(FromDict(raw[r][i]))
                   /\ resp[r].json[i].Name = raw[r][i]["Name"]
                   /\ resp[r].json[i].ID = raw[r][i]["ID"]

C6_Witness ==
    \E r \in Requests :
        /\ Done(r, "students")
        /\ raw[r] = <<RawB, RawA>>
        /\ Len(resp[r].json) = 2
        /\ resp[r].json[1].Name = "Anis"
        /\ resp[r].json[2].Name = "Aisyah"

(* C7: no caching: the step of a request that reads the file takes the     *)
(* contents the file has at that step, and the request's records and       *)
(* response are computed from what that request read, never from what      *)
(* another request read; requests that read equal contents answer equally. *)
C7_NoCaching ==
    /\ [][\A r \in Requests :
             (pc[r] = "idle" /\ pc'[r] # "idle") =>
                 IF Raises(file) THEN Failed(r)'
                 ELSE /\ pc'[r] = "loaded"
                      /\ raw'[r] = file.raw
                      /\ students'[r] = RecordsOf(file.raw)]_vars
    /\ [](\A r \in Requests :
             /\ pc[r] = "loaded" => students[r] = RecordsOf(raw[r])
             /\ Done(r, "students") =>
                    resp[r].json = get_students_json(RecordsOf(raw[r]))
             /\ Done(r, "summary") =>
                    resp[r].json = get_summary_json(RecordsOf(raw[r])))
    /\ [](\A r, q \in Requests :
             (pc[r] = "done" /\ pc[q] = "done" /\ kind[r] = kind[q]
                  /\ resp[r].status = 200 /\ resp[q].status = 200
                  /\ raw[r] = raw[q]) => resp[r] = resp[q])

C7_Witness ==
    /\ Done(1, "summary") /\ Done(2, "summary")
    /\ raw[1] = <<RawA>>
    /\ raw[2] = <<RawA, RawB>>
    /\ file = JsonFile(raw[2])
    /\ resp[1].json.totalStudents = 1
    /\ resp[2].json.totalStudents = 2

OthersUntouched(r) ==
    /\ file' = file
    /\ \A q \in Requests \ {r} :
           /\ pc'[q] = pc[q]
           /\ kind'[q] = kind[q]
           /\ raw'[q] = raw[q]
           /\ students'[q] = students[q]
           /\ resp'[q] = resp[q]

(* C8: a request that finds the file missing or malformed fails as a whole *)
(* (status 500, no partial body, no records kept), in the one step that    *)
(* reads the file (no retry: its only further step is to return), and      *)
(* changes nothing else; a request that finds the file valid loads every   *)
(* record of it, whatever failed before.                                   *)
C8_FailsAsAWhole ==
    [][\A r \in Requests :
          /\ (pc[r] = "idle" /\ pc'[r] # "idle" /\ Raises(file)) =>
                 /\ pc'[r] = "done"
                 /\ resp'[r] = InternalServerError
                 /\ students'[r] = <<>>
                 /\ raw'[r] = <<>>
                 /\ OthersUntouched(r)
          /\ (pc[r] = "idle" /\ pc'[r] # "idle" /\ ~Raises(file)) =>
                 /\ pc'[r] = "loaded"
                 /\ Len(students'[r]) = Len(file.raw)
                 /\ \A i \in 1..Len(file.raw) :
                        students'[r][i].student_id = file.raw[i]["ID"]
          /\ (Failed(r) /\ pc'[r] # pc[r]) =>
                 /\ pc'[r] = "idle"
                 /\ resp'[r] = NoResponse]_vars

C8_Witness ==
    /\ Failed(1)
    /\ students[1] = <<>>
    /\ file = JsonFile(<<RawA, RawNoName>>)
    /\ pc[2] = "loaded"
    /\ raw[2] = <<RawA>>

(* C9: a step of one request changes neither the file nor anything of      *)
(* another request, and serializing leaves the request's own records       *)
(* unchanged; its response is the one the same request gives when it runs  *)
(* alone over the contents it read.                                        *)
C9_RequestsIndependent ==
    [][\A r \in Requests :
          pc'[r] # pc[r] =>
              /\ OthersUntouched(r)
              /\ fpUp' = fpUp
              /\ pc[r] = "loaded" =>
                     /\ students'[r] = students[r]
                     /\ raw'[r] = raw[r]
                     /\ resp'[r].status = 200
                     /\ resp'[r].json =
                            IF kind[r] = "students"
                            THEN [i \in 1..Len(raw[r]) |->
                                     to_dict(FromDict(raw[r][i]))]
                            ELSE get_summary_json(RecordsOf(raw[r]))]_vars

C9_Witness ==
    /\ Done(1, "students") /\ Done(2, "students")
    /\ raw[1] = <<RawA, RawB>>
    /\ raw[2] = raw[1]
    /\ resp[2] = resp[1]
    /\ students[1] = students[2]

(* C10: for every Student is_top_student implies has_distinction, and      *)
(* has_distinction implies the tier Excellent; so every summary has        *)
(* topStudentCount <= distinctionCount <= excellentCount <= totalStudents. *)
C10_FlagsNested ==
    \A r \in Requests :
        /\ \A i \in 1..Len(students[r]) :
               /\ is_top_student(students[r][i]) => has_distinction(students[r][i])
               /\ has_distinction(students[r][i]) =>
                      predict_performance(students[r][i]) = "Excellent"
        /\ Done(r, "summary") =>
               /\ resp[r].json.topStudentCount <= resp[r].json.distinctionCount
               /\ resp[r].json.distinctionCount <= resp[r].json.excellentCount
               /\ resp[r].json.excellentCount <= resp[r].json.totalStudents

C10_Witness ==
    \E r \in Requests :
        /\ Done(r, "summary")
        /\ Len(students[r]) = 2
        /\ resp[r].json.topStudentCount = 1
        /\ resp[r].json.distinctionCount = 2
        /\ resp[r].json.excellentCount = 2
        /\ resp[r].json.totalStudents = 2

====
